---- MODULE Spec2Model ----
(***************************************************************************)
(* Expression-tree evaluation core of operon: the primal interpreter       *)
(* (GenericInterpreter::Evaluate), the n-ary kernels (detail::op,           *)
(* detail::dispatch_op) and the forward-mode DerivativeCalculator.          *)
(*                                                                         *)
(* Scalars are exact rationals <<num, den>> (den > 0, lowest terms), so a   *)
(* quotient is a quotient and not a rounded integer; <<0, 0>> stands for a  *)
(* non-finite IEEE value (Inf/NaN) and absorbs every operation.  The        *)
(* working scalar T of the interpreter is a dual number [a, v]: the primal  *)
(* instantiation has zero derivative lanes (v = <<>>), the dual one has     *)
(* DIMENSION lanes.  Indices are 0-based as in the source.                  *)
(***************************************************************************)
EXTENDS Integers, Sequences, FiniteSets, TLC

\* ------------------------------------------------------------------ bounds
\* rows per block of the working buffer (BatchSize<T>::Value, scaled down)
S == 2
\* the longest node array whose length and arity fields are enumerated
MaxNodes == 5
\* the largest thread count EvaluateTrees is called with
MaxThreads == 2
\* the largest population PopulationDiversityAnalyzer::Prepare is given
MaxPop == 4
\* derivative lanes of a Dual (Dual::DIMENSION, scaled down)
DIMENSION == 2
\* rows of the dataset
NumRows == 4
\* largest batchSize handed to the tiling overload of Evaluate
MaxBatch == 3

\* --------------------------------------------------------------- rationals
AbsInt(x) == IF x < 0 THEN -x ELSE x

RECURSIVE Gcd(_, _)
Gcd(a, b) == IF b = 0 THEN a ELSE Gcd(b, a % b)

NaN == <<0, 0>>

Norm(n, d) ==
    IF d = 0 THEN NaN
    ELSE LET g == Gcd(AbsInt(n), AbsInt(d))
             sg == IF d < 0 THEN -1 ELSE 1
         IN  <<sg * (n \div g), sg * (d \div g)>>

Q(n) == <<n, 1>>

Finite(x) == x[2] # 0

RAdd(x, y) == IF Finite(x) /\ Finite(y) THEN Norm(x[1] * y[2] + y[1] * x[2], x[2] * y[2]) ELSE NaN
RSub(x, y) == IF Finite(x) /\ Finite(y) THEN Norm(x[1] * y[2] - y[1] * x[2], x[2] * y[2]) ELSE NaN
RMul(x, y) == IF Finite(x) /\ Finite(y) THEN Norm(x[1] * y[1], x[2] * y[2]) ELSE NaN
RDiv(x, y) == IF Finite(x) /\ Finite(y) THEN Norm(x[1] * y[2], x[2] * y[1]) ELSE NaN
RNeg(x) == RSub(Q(0), x)

\* ------------------------------------------------- the working scalar T
\* T{x}: a Scalar converted to the working scalar (derivative part zero)
Cast(x, lanes) == [a |-> x, v |-> [k \in 1..lanes |-> Q(0)]]

Lanes(x) == Len(x.v)

TAdd(x, y) == [a |-> RAdd(x.a, y.a), v |-> [k \in 1..Lanes(x) |-> RAdd(x.v[k], y.v[k])]]
TSub(x, y) == [a |-> RSub(x.a, y.a), v |-> [k \in 1..Lanes(x) |-> RSub(x.v[k], y.v[k])]]
TMul(x, y) ==
    [a |-> RMul(x.a, y.a),
     v |-> [k \in 1..Lanes(x) |-> RAdd(RMul(x.a, y.v[k]), RMul(x.v[k], y.a))]]
TDiv(x, y) ==
    [a |-> RDiv(x.a, y.a),
     v |-> [k \in 1..Lanes(x) |->
              RDiv(RSub(RMul(x.v[k], y.a), RMul(x.a, y.v[k])), RMul(y.a, y.a))]]
TNeg(x) == TSub(Cast(Q(0), Lanes(x)), x)
TInv(x) == TDiv(Cast(Q(1), Lanes(x)), x)

\* ------------------------------------------------------------------ nodes
Seq0(s) == [k \in 0..(Len(s) - 1) |-> s[k + 1]]
Size(f) == Cardinality(DOMAIN f)

Node(type, arity, length, value, optimize, hash) ==
    [Type |-> type, Arity |-> arity, Length |-> length, Value |-> Q(value),
     Optimize |-> optimize, HashValue |-> hash]

IsConstant(n) == n.Type = "Constant"
IsVariable(n) == n.Type = "Variable"

\* --------------------------------------------------------------- kernels
\* (args + ...) and (args * ...): the fold of the trailing operands
RECURSIVE FoldSum(_)
FoldSum(args) == IF Len(args) = 1 THEN args[1] ELSE TAdd(args[1], FoldSum(Tail(args)))

RECURSIVE FoldProd(_)
FoldProd(args) == IF Len(args) = 1 THEN args[1] ELSE TMul(args[1], FoldProd(Tail(args)))

\* op<T, N>::operator()(ret, arg1)
OpUnary(N, arg1) ==
    CASE N = "Add" -> arg1
      [] N = "Sub" -> TNeg(arg1)
      [] N = "Mul" -> arg1
      [] N = "Div" -> TInv(arg1)

OpNaryReversed(N, arg1, args) ==
    CASE N = "Add" -> TAdd(arg1, FoldSum(args))
      [] N = "Sub" -> TSub(FoldSum(args), arg1)
      [] N = "Mul" -> TMul(arg1, FoldProd(args))
      [] N = "Div" -> TDiv(FoldProd(args), arg1)

\* op<T, N>::operator()(ret, arg1, args...)
OpNary(N, arg1, args) ==
    CASE N = "Add" -> TAdd(arg1, FoldSum(args))
      [] N = "Sub" -> TSub(arg1, FoldSum(args))
      [] N = "Mul" -> TMul(arg1, FoldProd(args))
      [] N = "Div" -> TDiv(arg1, FoldProd(args))

\* the kernels act on whole columns, row by row
ColUnary(N, c) == [k \in DOMAIN c |-> OpUnary(N, c[k])]
ColNary(N, c, cs) == [k \in DOMAIN c |-> OpNary(N, c[k], [j \in 1..Len(cs) |-> cs[j][k]])]

nextSiblingNoSkip(nodes, i) == i - nodes[i].Length

nextSibling(nodes, i) == i - (nodes[i].Length + 1)

\* the do { switch (arity) ... } while (arity > 0) loop of dispatch_op
RECURSIVE DispatchLoop(_, _, _, _, _, _, _)
DispatchLoop(N, m, nodes, parentIndex, arity, i, continued) ==
    LET r == m[parentIndex]
        j1 == nextSibling(nodes, i)
        j2 == nextSibling(nodes, j1)
        j3 == nextSibling(nodes, j2)
        j4 == nextSibling(nodes, j3)
    IN  CASE arity = 1 ->
               [m EXCEPT ![parentIndex] =
                   IF continued THEN ColNary(N, r, <<m[i]>>) ELSE ColUnary(N, m[i])]
          [] arity = 2 ->
               [m EXCEPT ![parentIndex] = ColNary(N, m[i], <<m[j1]>>)]
          [] arity = 3 ->
               [m EXCEPT ![parentIndex] = ColNary(N, m[i], <<m[j1], m[j2]>>)]
          [] arity = 4 ->
               [m EXCEPT ![parentIndex] = ColNary(N, m[i], <<m[j1], m[j2], m[j3]>>)]
          [] arity = 5 ->
               [m EXCEPT ![parentIndex] = ColNary(N, m[i], <<m[j1], m[j2], m[j3], m[j4]>>)]
          [] OTHER ->
               LET m1 == [m EXCEPT ![parentIndex] =
                             ColNary(N, m[i], <<m[j1], m[j2], m[j3], m[j4]>>)]
               IN  IF arity - 5 > 0
                   THEN DispatchLoop(N, m1, nodes, parentIndex, arity - 5,
                                     nextSibling(nodes, j4), TRUE)
                   ELSE m1

dispatch_op(N, m, nodes, parentIndex) ==
    DispatchLoop(N, m, nodes, parentIndex, nodes[parentIndex].Arity, parentIndex - 1, FALSE)

\* ------------------------------------------------------------- dataset
\* Dataset::GetValues(hash): one column of NumRows Scalars per variable
Dataset ==
    [X |-> [r \in 0..(NumRows - 1) |-> Q(r + 1)],
     Y |-> [r \in 0..(NumRows - 1) |-> Q(10 * (r + 1))]]

GetValues(hash) == IF hash = "X" THEN Dataset.X ELSE Dataset.Y

\* span.subspan(offset, count) of a 0-based view
Subspan(view, offset, count) == [k \in 0..(count - 1) |-> view[offset + k]]

RangeSize(rg) == rg.End - rg.Start

Min(a, b) == IF a < b THEN a ELSE b

\* ------------------------------------------------------- dispatch table
\* kinds with a registered kernel; TryGet of any other kind is empty
FTable == {"Add", "Sub", "Mul", "Div"}

TryGet(hash) == IF hash \in FTable THEN hash ELSE "none"

\* ---------------------------------------------------------------- Evaluate
ParamAtFirst(parameters, k, junk) ==
    IF 0 \in DOMAIN parameters.at THEN parameters.at[0] ELSE junk

\* parameters[k]; a read past the end of the vector yields an arbitrary value
ParamAt(parameters, k, junk) ==
    IF k \in DOMAIN parameters.at THEN parameters.at[k] ELSE junk

NoParameters == [present |-> FALSE, at |-> << >>]

\* The activation record of Evaluate(tree, dataset, range, result, parameters):
\* buf is the caller's buffer, span the part of it `result` views, writes
\* counts the stores of this call into each cell of buf, asserts tells whether
\* the build keeps Eigen's index assertions.
Call(nodes, range, buf, span, parameters, lanes, junk) ==
    [pc |-> "entry", nodes |-> nodes, range |-> range, buf |-> buf, span |-> span,
     asserts |-> FALSE,
     parameters |-> parameters, lanes |-> lanes, junk |-> junk,
     m |-> << >>, meta |-> << >>, idx |-> 0, numRows |-> 0, i |-> 0, row |-> 0,
     remainingRows |-> 0, consumed |-> << >>,
     writes |-> [k \in DOMAIN buf |-> 0]]

\* lines 62-73: EXPECT(!nodes.empty()), the working buffer, idx and numRows
EnterF(e) ==
    IF Size(e.nodes) = 0
    THEN [e EXCEPT !.pc = "abort"]
    ELSE [e EXCEPT !.pc = "setup",
                   !.m = [n \in DOMAIN e.nodes |-> [k \in 0..(S - 1) |-> e.junk]],
                   !.idx = 0,
                   !.numRows = RangeSize(e.range),
                   !.i = 0]

TakesParameterAlways(parameters, n) == parameters.present

\* line 78: (parameters && n.Optimize), whether node n takes the next parameter
TakesParameter(parameters, n) == parameters.present /\ n.Optimize

\* lines 75-84: one iteration of the per-node setup loop
SetupNodeF(e) ==
    LET n == e.nodes[e.i]
        takes == TakesParameter(e.parameters, n)
        param == IF takes THEN ParamAt(e.parameters, e.idx, e.junk)
                          ELSE Cast(n.Value, e.lanes)
        values == IF IsVariable(n)
                  THEN Subspan(GetValues(n.HashValue), e.range.Start, e.numRows)
                  ELSE << >>
    IN  [e EXCEPT !.idx = IF takes THEN e.idx + 1 ELSE e.idx,
                  !.consumed = IF takes THEN Append(e.consumed, e.i) ELSE e.consumed,
                  !.meta = [k \in 0..e.i |->
                               IF k = e.i
                               THEN [param |-> param, values |-> values,
                                     func |-> TryGet(n.HashValue)]
                               ELSE e.meta[k]],
                  !.m = IF IsConstant(n)
                        THEN [e.m EXCEPT ![e.i] = [k \in 0..(S - 1) |-> param]]
                        ELSE e.m,
                  !.i = e.i + 1]

\* line 87, first entry: row = 0
SetupDoneF(e) == [e EXCEPT !.pc = "rows", !.row = 0]

\* lines 88-89: the width of the block that starts at row
BlockBeginF(e) ==
    [e EXCEPT !.pc = "nodes",
              !.remainingRows = Min(S, e.numRows - e.row),
              !.i = 0]

VariableColumnFirstBlock(col, param, values, row, remainingRows, lanes) ==
    [k \in DOMAIN col |->
        IF k < remainingRows
        THEN TMul(param, Cast(values[k], lanes))
        ELSE col[k]]

\* line 94: m[i].segment(0, remainingRows) = param * values.segment(row, remainingRows)
VariableColumn(col, param, values, row, remainingRows, lanes) ==
    [k \in DOMAIN col |->
        IF k < remainingRows
        THEN TMul(param, Cast(values[row + k], lanes))
        ELSE col[k]]

\* lines 92-97: one node of the current block
EvalNodeF(e) ==
    LET mt == e.meta[e.i] IN
    [e EXCEPT !.m =
                 IF IsVariable(e.nodes[e.i])
                 THEN [e.m EXCEPT ![e.i] = VariableColumn(e.m[e.i], mt.param, mt.values,
                                                          e.row, e.remainingRows, e.lanes)]
                 ELSE IF mt.func # "none"
                      THEN dispatch_op(mt.func, e.m, e.nodes, e.i)
                      ELSE e.m,
              !.i = e.i + 1]

NextRowByOne(row) == row + 1

\* line 87: row += S
NextRow(row) == row + S

\* line 100: res.segment(row, remainingRows) = m.back().segment(0, remainingRows).
\* A segment that ends past res.size() is undefined: a build with Eigen's
\* assertions stops there, a build without them stores past the end of the span.
CopyRootF(e) ==
    LET back == e.m[Size(e.nodes) - 1]
        hit(k) == k - e.span.off - e.row
        stored(k) == hit(k) >= 0 /\ hit(k) < e.remainingRows
        past == e.row + e.remainingRows > e.span.size
    IN  IF e.asserts /\ past THEN [e EXCEPT !.pc = "abort"] ELSE
        [e EXCEPT !.buf = [k \in DOMAIN e.buf |-> IF stored(k) THEN back[hit(k)] ELSE e.buf[k]],
                  !.writes = [k \in DOMAIN e.buf |->
                                 IF stored(k) THEN e.writes[k] + 1 ELSE e.writes[k]],
                  !.row = NextRow(e.row),
                  !.pc = "rows"]

ReturnF(e) == [e EXCEPT !.pc = "done"]

Running(e) == e.pc \in {"entry", "setup", "rows", "nodes"}

\* one step of Evaluate from its current position
StepF(e) ==
    CASE e.pc = "entry" -> EnterF(e)
      [] e.pc = "setup" -> IF e.i < Size(e.nodes) THEN SetupNodeF(e) ELSE SetupDoneF(e)
      [] e.pc = "rows" -> IF e.row < e.numRows THEN BlockBeginF(e) ELSE ReturnF(e)
      [] e.pc = "nodes" -> IF e.i < Size(e.nodes) THEN EvalNodeF(e) ELSE CopyRootF(e)

\* Evaluate run from e until it returns (or aborts)
RECURSIVE RunF(_)
RunF(e) == IF Running(e) THEN RunF(StepF(e)) ELSE e

\* ------------------------------------------------------------------ trees
Const(value, optimize) == Node("Constant", 0, 0, value, optimize, "Constant")
Var(hash, weight, optimize) == Node("Variable", 0, 0, weight, optimize, hash)
Fn(type, arity, length, optimize) == Node(type, arity, length, 1, optimize, type)

\* k constants 2, 3, 1, 2, 3, 1, ... (every third one a parameter) followed by
\* their n-ary parent
Flat(type, k) ==
    Seq0([j \in 1..(k + 1) |->
             IF j = k + 1 THEN Fn(type, k, k, FALSE) ELSE Const(1 + (j % 3), j % 3 = 0)])

\* the trees handed to the interpreter, in postorder
Trees ==
    << << >>,
       Seq0(<<Const(3, FALSE)>>),
       Seq0(<<Var("X", 2, TRUE)>>),
       Seq0(<<Var("X", 1, FALSE), Var("Y", 1, FALSE), Fn("Add", 2, 2, FALSE)>>),
       Seq0(<<Const(2, TRUE), Const(3, TRUE), Const(5, TRUE), Const(7, TRUE),
              Const(11, TRUE), Fn("Mul", 5, 5, FALSE)>>),
       Seq0(<<Const(10, FALSE), Const(1, FALSE), Const(2, FALSE), Const(3, FALSE),
              Fn("Sub", 4, 4, FALSE)>>),
       Seq0(<<Var("X", 2, TRUE), Const(3, TRUE), Fn("Add", 2, 2, FALSE)>>),
       Seq0(<<Var("X", 1, FALSE), Var("Y", 3, TRUE), Fn("Mul", 2, 2, FALSE),
              Const(5, TRUE), Fn("Sub", 2, 4, FALSE)>>),
       Seq0(<<Var("Y", 1, FALSE), Fn("Div", 1, 1, FALSE), Var("X", 1, TRUE),
              Fn("Sub", 1, 1, FALSE), Fn("Div", 2, 4, FALSE)>>),
       Seq0(<<Var("X", 1, FALSE), Var("Y", 1, FALSE), Fn("Add", 2, 2, TRUE),
              Const(4, TRUE), Fn("Mul", 2, 4, FALSE)>>),
       Flat("Sub", 6),
       Flat("Add", 7),
       Flat("Mul", 10),
       Flat("Div", 11) >>

Ranges == {[Start |-> a, End |-> b] : a \in 0..NumRows, b \in 0..NumRows} \cap
          {rg \in [Start : 0..NumRows, End : 0..NumRows] : rg.Start <= rg.End}

\* the nodes that take a parameter when a vector is supplied
OptimizeMarked(nodes) == {k \in DOMAIN nodes : nodes[k].Optimize}

\* a parameter vector with one entry per optimize-marked node, all distinct
ParameterVector(nodes) ==
    [present |-> TRUE,
     at |-> [k \in 0..(Cardinality(OptimizeMarked(nodes)) - 1) |-> Cast(Q(13 + k), 0)]]

\* contents of memory that nothing has written yet
JunkValues == {Cast(Q(0), 0), Cast(Q(-7), 0)}

\* ---------------------------------------------------- DerivativeCalculator
\* the trees differentiated: Add and Mul over weighted variables and
\* constants, with 2, 3, 5 and 1 optimize-marked leaves
JacTrees ==
    << Seq0(<<Var("X", 2, TRUE), Const(3, TRUE), Fn("Add", 2, 2, FALSE)>>),
       Seq0(<<Var("X", 1, TRUE), Var("Y", 1, TRUE), Fn("Mul", 2, 2, FALSE),
              Const(1, TRUE), Fn("Add", 2, 4, FALSE)>>),
       Seq0(<<Var("X", 1, TRUE), Const(1, TRUE), Var("Y", 1, TRUE), Const(1, TRUE),
              Const(1, TRUE), Fn("Mul", 5, 5, FALSE)>>),
       Seq0(<<Var("Y", 1, TRUE), Const(2, FALSE), Fn("Mul", 2, 2, FALSE)>>) >>

\* coeff = [base, base + 1, ...], one entry per optimize-marked node
Coefficients(nodes, base) ==
    [i \in 0..(Cardinality(OptimizeMarked(nodes)) - 1) |-> Q(base + i)]

CoeffBases == {2, 5}

StorageOrders == {"ColMajor", "RowMajor"}

\* jet.v[l], lanes counted from 0
Lane(jet, l) == jet.v[l + 1]

\* Eigen::Map<Array<Scalar, -1, -1, StorageOrder>>: the cell of entry (r, i)
\* of a rows x cols matrix mapped onto a flat buffer
MapIndex(order, rows, cols, r, i) ==
    IF order = "ColMajor" THEN i * rows + r ELSE r * cols + i

JacAt(d, r, i) ==
    d.jac[MapIndex(d.order, RangeSize(d.range), Size(d.coeff), r, i)]

\* The activation record of operator()(tree, dataset, coeff, range, jacobian):
\* jac is the caller's flat buffer; sweeps records, per cell, the chunk
\* starts s of the sweeps that stored into it, oob a store outside of it.
JacCall(nodes, coeff, range, order, junk) ==
    [pc |-> "entry", nodes |-> nodes, coeff |-> coeff, range |-> range,
     order |-> order, junk |-> junk,
     inputs |-> << >>, outputs |-> << >>,
     jac |-> [c \in 0..(RangeSize(range) * Size(coeff) - 1) |-> junk.a],
     s |-> 0, r |-> 0,
     sweeps |-> [c \in 0..(RangeSize(range) * Size(coeff) - 1) |-> << >>],
     oob |-> FALSE]

\* lines 30-41: inputs, outputs, jac.setConstant(0), the primal parts of inputs
JacEnterF(d) ==
    [d EXCEPT !.pc = "sweep",
              !.inputs = [i \in DOMAIN d.coeff |-> Cast(d.coeff[i], DIMENSION)],
              !.outputs = [k \in 0..(RangeSize(d.range) - 1) |-> Cast(Q(0), DIMENSION)],
              !.jac = [c \in DOMAIN d.jac |-> Q(0)],
              !.s = 0]

\* lines 43-47: the chunk [s, r) and its seeds
SeedF(d) ==
    LET r == Min(Size(d.inputs), d.s + DIMENSION) IN
    [d EXCEPT !.pc = "interp",
              !.r = r,
              !.inputs = [i \in DOMAIN d.inputs |->
                             IF d.s <= i /\ i < r
                             THEN [d.inputs[i] EXCEPT !.v[i - d.s + 1] = Q(1)]
                             ELSE d.inputs[i]]]

\* line 49: the interpreter on the dual scalar, outputs as result span and
\* inputs as parameters
InterpretF(d) ==
    LET e == RunF(Call(d.nodes, d.range, d.outputs,
                       [off |-> 0, size |-> Size(d.outputs)],
                       [present |-> TRUE, at |-> d.inputs], DIMENSION,
                       Cast(d.junk.a, DIMENSION)))
    IN  IF e.pc = "abort"
        THEN [d EXCEPT !.pc = "abort"]
        ELSE [d EXCEPT !.pc = "fill", !.outputs = e.buf]

RowStoreCellNoOffset(i, cols, s, l) == i * cols + l

\* line 54: jac.col(i).data()[k]
ColStoreCell(i, rows, k) == i * rows + k

\* line 58: (jac.row(i).data() + s)[l]
RowStoreCell(i, cols, s, l) == i * cols + s + l

\* lines 52-60: the stores of one sweep in program order, <<cell, value>>
Stores(d) ==
    LET rows == Size(d.outputs)
        cols == Size(d.inputs)
        w == d.r - d.s
    IN  IF d.order = "ColMajor"
        THEN [n \in 1..(w * rows) |->
                 LET i == d.s + (n - 1) \div rows
                     k == (n - 1) % rows
                 IN  <<ColStoreCell(i, rows, k), Lane(d.outputs[k], i - d.s)>>]
        ELSE [n \in 1..(rows * w) |->
                 LET i == (n - 1) \div w
                     l == (n - 1) % w
                 IN  <<RowStoreCell(i, cols, d.s, l), Lane(d.outputs[i], l)>>]

RECURSIVE ApplyStores(_, _)
ApplyStores(d, stores) ==
    IF stores = << >> THEN d
    ELSE LET c == Head(stores)[1]
             v == Head(stores)[2]
         IN  IF c \in DOMAIN d.jac
             THEN ApplyStores([d EXCEPT !.jac[c] = v,
                                        !.sweeps[c] = Append(d.sweeps[c], d.s)],
                              Tail(stores))
             ELSE ApplyStores([d EXCEPT !.oob = TRUE], Tail(stores))

\* lines 52-60 and s += d of line 42
FillF(d) ==
    [ApplyStores(d, Stores(d)) EXCEPT !.pc = "sweep", !.s = d.s + DIMENSION]

JacReturnF(d) == [d EXCEPT !.pc = "done"]

JacRunning(d) == d.pc \in {"entry", "sweep", "interp", "fill"}

JacStepF(d) ==
    CASE d.pc = "entry" -> JacEnterF(d)
      [] d.pc = "sweep" -> IF d.s < Size(d.inputs) THEN SeedF(d) ELSE JacReturnF(d)
      [] d.pc = "interp" -> InterpretF(d)
      [] d.pc = "fill" -> FillF(d)

RECURSIVE JacRunF(_)
JacRunF(d) == IF JacRunning(d) THEN JacRunF(JacStepF(d)) ELSE d

\* -------------------------------------------------------------- the machine
VARIABLES
    call,   \* the arguments of the top-level call
    ev,     \* the activation record of Evaluate (span overload)
    bt,     \* the activation record of Evaluate (batchSize overload)
    dc,     \* the activation record of DerivativeCalculator::operator()
    nd,     \* a Node under construction and the answers of its predicates
    tw,     \* a kernel's walk over the children of one node
    mt,     \* the multi-tree driver: its tasks and its output buffer
    pd      \* the activation record of PopulationDiversityAnalyzer::Prepare

vars == <<call, ev, bt, dc, nd, tw, mt, pd>>

\* the components an action of another component leaves alone
rest == <<nd, tw, mt, pd>>

Idle == [pc |-> "idle"]

\* the batch sizes a mode is called with (the span overload takes none)
BatchSizes(md) == IF md = "batch" THEN 1..MaxBatch ELSE {0}

Calls ==
    UNION {
        {[mode |-> md, tree |-> tr, range |-> rg, parameters |-> ps,
          batchSize |-> bs, junk |-> jk] :
            rg \in Ranges, ps \in {NoParameters, ParameterVector(tr)},
            bs \in BatchSizes(md), jk \in JunkValues} :
        md \in {"span", "batch"}, tr \in {Trees[t] : t \in 1..Len(Trees)}}

\* the caller of the span overload owns a buffer of range.Size() cells
SpanCall(c) ==
    Call(c.tree, c.range, [k \in 0..(RangeSize(c.range) - 1) |-> c.junk],
         [off |-> 0, size |-> RangeSize(c.range)], c.parameters, 0, c.junk)

Init ==
    /\ call \in Calls
    /\ ev = IF call.mode = "span" THEN SpanCall(call) ELSE Idle
    /\ bt = IF call.mode = "batch" THEN [pc |-> "entry"] ELSE Idle
    /\ dc = Idle
    /\ nd = Idle /\ tw = Idle /\ mt = Idle /\ pd = Idle

\* ---- Evaluate(tree, dataset, range, result, parameters), interpreter.hpp:58
Enter ==
    /\ ev.pc = "entry"
    /\ ev' = EnterF(ev)
    /\ UNCHANGED <<call, bt, dc, rest>>

SetupNode ==
    /\ ev.pc = "setup" /\ ev.i < Size(ev.nodes)
    /\ ev' = SetupNodeF(ev)
    /\ UNCHANGED <<call, bt, dc, rest>>

SetupDone ==
    /\ ev.pc = "setup" /\ ~(ev.i < Size(ev.nodes))
    /\ ev' = SetupDoneF(ev)
    /\ UNCHANGED <<call, bt, dc, rest>>

BlockBegin ==
    /\ ev.pc = "rows" /\ ev.row < ev.numRows
    /\ ev' = BlockBeginF(ev)
    /\ UNCHANGED <<call, bt, dc, rest>>

EvalNode ==
    /\ ev.pc = "nodes" /\ ev.i < Size(ev.nodes)
    /\ ev' = EvalNodeF(ev)
    /\ UNCHANGED <<call, bt, dc, rest>>

CopyRoot ==
    /\ ev.pc = "nodes" /\ ~(ev.i < Size(ev.nodes))
    /\ ev' = CopyRootF(ev)
    /\ UNCHANGED <<call, bt, dc, rest>>

Return ==
    /\ ev.pc = "rows" /\ ~(ev.row < ev.numRows)
    /\ ev' = ReturnF(ev)
    /\ UNCHANGED <<call, bt, dc, rest>>

\* ---- Evaluate(tree, dataset, range, batchSize, parameters), interpreter.hpp:40
\* lines 42-48: the result vector (value-initialised) and the tile indices
BatchEnter ==
    /\ bt.pc = "entry"
    /\ LET n == RangeSize(call.range) \div call.batchSize
           m == RangeSize(call.range) % call.batchSize
       IN  bt' = [pc |-> "loop",
                  result |-> [k \in 0..(RangeSize(call.range) - 1) |-> Cast(Q(0), 0)],
                  indices |-> [k \in 1..(n + (IF m # 0 THEN 1 ELSE 0)) |-> k - 1],
                  k |-> 1,
                  tiles |-> << >>]
    /\ UNCHANGED <<call, ev, dc, rest>>

TileStartFromZero(range, idx, batchSize) == idx * batchSize

\* line 50: start = range.Start() + idx * batchSize
TileStart(range, idx, batchSize) == range.Start + idx * batchSize

\* lines 50-53: the tile of indices[k] and the call of the span overload on it
BatchTile ==
    /\ bt.pc = "loop" /\ bt.k <= Len(bt.indices)
    /\ LET idx == bt.indices[bt.k]
           start == TileStart(call.range, idx, call.batchSize)
           end == Min(start + call.batchSize, call.range.End)
           subview == [off |-> idx * call.batchSize, size |-> end - start]
           rg == [Start |-> start, End |-> end]
       IN  /\ ev' = Call(call.tree, rg, bt.result, subview, call.parameters, 0, call.junk)
           /\ bt' = [bt EXCEPT !.pc = "tile",
                               !.tiles = Append(bt.tiles,
                                    [range |-> rg, span |-> subview,
                                     parameters |-> call.parameters])]
    /\ UNCHANGED <<call, dc, rest>>

\* the span overload has returned: the next index of the for_each
BatchTileReturn ==
    /\ bt.pc = "tile" /\ ev.pc = "done"
    /\ bt' = [bt EXCEPT !.pc = "loop", !.result = ev.buf, !.k = bt.k + 1]
    /\ UNCHANGED <<call, ev, dc, rest>>

\* line 55: return result
BatchReturn ==
    /\ bt.pc = "loop" /\ ~(bt.k <= Len(bt.indices))
    /\ bt' = [bt EXCEPT !.pc = "done"]
    /\ UNCHANGED <<call, ev, dc, rest>>

Next ==
    \/ Enter
    \/ SetupNode
    \/ SetupDone
    \/ BlockBegin
    \/ EvalNode
    \/ CopyRoot
    \/ Return
    \/ BatchEnter
    \/ BatchTile
    \/ BatchTileReturn
    \/ BatchReturn

Spec == Init /\ [][Next]_vars

\* ---- DerivativeCalculator::operator(), forward.hpp:28
JacCalls ==
    UNION {
        {[mode |-> "jacobian", tree |-> tr, coeff |-> Coefficients(tr, cb), range |-> rg,
          order |-> so, junk |-> jk] :
            rg \in Ranges, so \in StorageOrders, cb \in CoeffBases, jk \in JunkValues} :
        tr \in {JacTrees[t] : t \in 1..Len(JacTrees)}}

InitJac ==
    /\ call \in JacCalls
    /\ ev = Idle
    /\ bt = Idle
    /\ dc = JacCall(call.tree, call.coeff, call.range, call.order, call.junk)
    /\ nd = Idle /\ tw = Idle /\ mt = Idle /\ pd = Idle

JacEnter ==
    /\ dc.pc = "entry"
    /\ dc' = JacEnterF(dc)
    /\ UNCHANGED <<call, ev, bt, rest>>

Seed ==
    /\ dc.pc = "sweep" /\ dc.s < Size(dc.inputs)
    /\ dc' = SeedF(dc)
    /\ UNCHANGED <<call, ev, bt, rest>>

Interpret ==
    /\ dc.pc = "interp"
    /\ dc' = InterpretF(dc)
    /\ UNCHANGED <<call, ev, bt, rest>>

Fill ==
    /\ dc.pc = "fill"
    /\ dc' = FillF(dc)
    /\ UNCHANGED <<call, ev, bt, rest>>

JacReturn ==
    /\ dc.pc = "sweep" /\ ~(dc.s < Size(dc.inputs))
    /\ dc' = JacReturnF(dc)
    /\ UNCHANGED <<call, ev, bt, rest>>

NextJac ==
    \/ JacEnter
    \/ Seed
    \/ Interpret
    \/ Fill
    \/ JacReturn

SpecJac == InitJac /\ [][NextJac]_vars


\* ---- Evaluate called outside its contract, interpreter.hpp:58
\* trees with an inner node of a kind no kernel is registered for
KernelLess ==
    << Seq0(<<Var("X", 1, FALSE), Fn("Exp", 1, 1, FALSE)>>),
       Seq0(<<Const(3, FALSE), Var("Y", 1, FALSE), Fn("Pow", 2, 2, FALSE)>>),
       Seq0(<<Var("X", 1, FALSE), Fn("Dynamic", 1, 1, FALSE), Const(2, FALSE),
              Fn("Add", 2, 3, FALSE)>>) >>

\* how many cells more than range.Size() the result span has
SizeSlack == {-1, 0, 1}

ContractTrees ==
    {Trees[1], Trees[2], Trees[4]} \cup {KernelLess[t] : t \in 1..Len(KernelLess)}

ContractCalls ==
    {c \in [mode : {"contract"}, tree : ContractTrees, range : Ranges,
            slack : SizeSlack, off : {0, 1}, junk : JunkValues, asserts : BOOLEAN] :
        RangeSize(c.range) + c.slack >= 0}

\* result views size cells at off of a buffer that extends one cell past
\* both the span and the rows of the range
ContractCall(c) ==
    LET n == RangeSize(c.range)
        size == n + c.slack
        len == c.off + (IF size > n THEN size ELSE n) + 1
    IN  [Call(c.tree, c.range, [k \in 0..(len - 1) |-> c.junk],
              [off |-> c.off, size |-> size], NoParameters, 0, c.junk)
         EXCEPT !.asserts = c.asserts]

InitContract ==
    /\ call \in ContractCalls
    /\ ev = ContractCall(call)
    /\ bt = Idle /\ dc = Idle
    /\ nd = Idle /\ tw = Idle /\ mt = Idle /\ pd = Idle

NextEvaluate ==
    \/ Enter
    \/ SetupNode
    \/ SetupDone
    \/ BlockBegin
    \/ EvalNode
    \/ CopyRoot
    \/ Return

SpecContract == InitContract /\ [][NextEvaluate]_vars

\* ---- the walk of a kernel over the children of a node, interpreter.hpp:193
\* the length and arity fields of a node array
Shape(nodes) == [k \in DOMAIN nodes |-> [Arity |-> nodes[k].Arity, Length |-> nodes[k].Length]]

\* the fields node k of a postorder array can carry: its subtree lies in 0..k
FieldsAt(k) == {[Arity |-> a, Length |-> l] : a \in 0..k, l \in 0..k} \cap
               {f \in [Arity : 0..k, Length : 0..k] : f.Arity <= f.Length}

\* the roots of the subtrees directly below p: the nodes of p's interval that
\* lie in the interval of no other node below p
ChildRoots(nodes, p) ==
    {c \in (p - nodes[p].Length)..(p - 1) :
        \A q \in (c + 1)..(p - 1) : q - nodes[q].Length > c}

RECURSIVE SumLengths(_, _)
SumLengths(nodes, cs) ==
    IF cs = {} THEN 0
    ELSE LET c == CHOOSE x \in cs : TRUE
         IN  nodes[c].Length + 1 + SumLengths(nodes, cs \ {c})

\* the length and arity fields are consistent: every node has Arity children
\* and its Length is the sum of its children's Length + 1
ConsistentAt(nodes, p) ==
    /\ p - nodes[p].Length >= 0
    /\ Cardinality(ChildRoots(nodes, p)) = nodes[p].Arity
    /\ SumLengths(nodes, ChildRoots(nodes, p)) = nodes[p].Length

Consistent(nodes) == \A p \in DOMAIN nodes : ConsistentAt(nodes, p)

\* the consistent arrays of n nodes; a node's consistency rests on the nodes
\* before it only, so the arrays grow one consistent node at a time
RECURSIVE Arrays(_)
Arrays(n) ==
    IF n = 0 THEN {<< >>}
    ELSE {b \in {Append(a, f) : a \in Arrays(n - 1), f \in FieldsAt(n - 1)} :
             ConsistentAt(Seq0(b), n - 1)}

Shapes ==
    {Seq0(a) : a \in UNION {Arrays(n) : n \in 1..MaxNodes}}
        \cup {Shape(Trees[t]) : t \in 2..Len(Trees)}

Walks ==
    UNION {
        {[pc |-> "entry", kernel |-> kn, nodes |-> sh, parentIndex |-> p,
          arity |-> 0, i |-> 0, k |-> 0, visits |-> << >>] :
            kn \in {"dispatch_op", "dispatch_op_simple"},
            p \in {q \in DOMAIN sh : sh[q].Arity >= 1}} :
        sh \in Shapes}

InitWalk ==
    /\ call = [mode |-> "walk"]
    /\ ev = Idle /\ bt = Idle /\ dc = Idle
    /\ tw \in Walks
    /\ nd = Idle /\ mt = Idle /\ pd = Idle

\* lines 200-202 and 247-248: arity and the index of the first child
WalkEnter ==
    /\ tw.pc = "entry"
    /\ tw' = [tw EXCEPT !.pc = IF tw.kernel = "dispatch_op" THEN "switch" ELSE "simple",
                        !.arity = tw.nodes[tw.parentIndex].Arity,
                        !.i = tw.parentIndex - 1]
    /\ UNCHANGED <<call, ev, bt, dc, nd, mt, pd>>

\* lines 205-238: one pass of the do-while of dispatch_op; the columns it reads
\* are i and the siblings j1 .. j4 it computes
WalkSwitch ==
    /\ tw.pc = "switch"
    /\ LET j1 == nextSibling(tw.nodes, tw.i)
           j2 == nextSibling(tw.nodes, j1)
           j3 == nextSibling(tw.nodes, j2)
           j4 == nextSibling(tw.nodes, j3)
       IN  tw' = CASE tw.arity = 1 ->
                       [tw EXCEPT !.visits = @ \o <<tw.i>>, !.pc = "return"]
                   [] tw.arity = 2 ->
                       [tw EXCEPT !.visits = @ \o <<tw.i, j1>>, !.pc = "return"]
                   [] tw.arity = 3 ->
                       [tw EXCEPT !.visits = @ \o <<tw.i, j1, j2>>, !.pc = "return"]
                   [] tw.arity = 4 ->
                       [tw EXCEPT !.visits = @ \o <<tw.i, j1, j2, j3>>, !.pc = "return"]
                   [] tw.arity = 5 ->
                       [tw EXCEPT !.visits = @ \o <<tw.i, j1, j2, j3, j4>>,
                                  !.pc = "return"]
                   [] OTHER ->
                       [tw EXCEPT !.visits = @ \o <<tw.i, j1, j2, j3, j4>>,
                                  !.i = nextSibling(tw.nodes, j4),
                                  !.arity = tw.arity - 5,
                                  !.pc = IF tw.arity - 5 > 0 THEN "switch" ELSE "return"]
    /\ UNCHANGED <<call, ev, bt, dc, nd, mt, pd>>

\* lines 250-253: dispatch_op_simple reads the column of the first child
WalkSimpleFirst ==
    /\ tw.pc = "simple"
    /\ tw' = [tw EXCEPT !.visits = <<tw.i>>, !.k = 1,
                        !.pc = IF tw.arity = 1 THEN "return" ELSE "for"]
    /\ UNCHANGED <<call, ev, bt, dc, nd, mt, pd>>

\* lines 254-257: for (k = 1; k < Arity; ++k) { j -= nodes[j].Length + 1; ... }
WalkSimpleNext ==
    /\ tw.pc = "for" /\ tw.k < tw.nodes[tw.parentIndex].Arity
    /\ tw' = [tw EXCEPT !.i = nextSibling(tw.nodes, tw.i),
                        !.visits = @ \o <<nextSibling(tw.nodes, tw.i)>>,
                        !.k = tw.k + 1]
    /\ UNCHANGED <<call, ev, bt, dc, nd, mt, pd>>

WalkSimpleReturn ==
    /\ tw.pc = "for" /\ ~(tw.k < tw.nodes[tw.parentIndex].Arity)
    /\ tw' = [tw EXCEPT !.pc = "return"]
    /\ UNCHANGED <<call, ev, bt, dc, nd, mt, pd>>

NextWalk ==
    \/ WalkEnter
    \/ WalkSwitch
    \/ WalkSimpleFirst
    \/ WalkSimpleNext
    \/ WalkSimpleReturn

SpecWalk == InitWalk /\ [][NextWalk]_vars

\* ---- EvaluateTrees(trees, dataset, range, result, nthread), interpreter.hpp:115
\* the first cell of the output row of task t
RowOffsetZero(t, n) == 0

RowOffset(t, n) == t * n

\* the size of the pool: nthread, or the machine's choice when nthread is 0
PoolSize(nthread) == IF nthread = 0 THEN MaxThreads ELSE nthread

\* the tree sequences handed to the driver
TreeLists ==
    { <<Trees[4]>>,
      <<Trees[3], Trees[4]>>,
      <<Trees[7], Trees[7]>>,
      <<Trees[4], Trees[2], Trees[3]>> }

DriverRanges == {rg \in Ranges : RangeSize(rg) >= 1 /\ rg.Start \in {0, 1}}

DriverCalls ==
    [mode : {"trees"}, trees : TreeLists, range : DriverRanges,
     nthread : 0..MaxThreads, junk : {Cast(Q(-7), 0)}]

\* the task of tree t: the primal interpreter on trees[t] into row t of result
TaskCall(c, t) ==
    LET n == RangeSize(c.range)
    IN  Call(c.trees[t + 1], c.range, [k \in 0..(Len(c.trees) * n - 1) |-> c.junk],
             [off |-> RowOffset(t, n), size |-> n], NoParameters, 0, c.junk)

InitTrees ==
    /\ call \in DriverCalls
    /\ ev = Idle /\ bt = Idle /\ dc = Idle
    /\ mt = [pc |-> "entry"]
    /\ nd = Idle /\ tw = Idle /\ pd = Idle

\* one task per tree is submitted to the pool
Submit ==
    /\ mt.pc = "entry"
    /\ mt' = [pc |-> "forked",
              trees |-> call.trees,
              result |-> [k \in 0..(Len(call.trees) * RangeSize(call.range) - 1) |->
                             call.junk],
              task |-> [t \in 0..(Len(call.trees) - 1) |-> TaskCall(call, t)],
              started |-> {}]
    /\ UNCHANGED <<call, ev, bt, dc, nd, tw, pd>>

InFlight == {t \in mt.started : Running(mt.task[t])}

\* Evaluate of task t advances by one step on the shared result buffer
Advance(t) ==
    LET e == StepF([mt.task[t] EXCEPT !.buf = mt.result])
    IN  mt' = [mt EXCEPT !.result = e.buf,
                         !.task[t] = [e EXCEPT !.buf = mt.task[t].buf],
                         !.started = mt.started \cup {t}]

\* a free worker takes (or steals) any task not yet started
TaskStart ==
    /\ mt.pc = "forked"
    /\ Cardinality(InFlight) < PoolSize(call.nthread)
    /\ \E t \in DOMAIN mt.task \ mt.started : Advance(t)
    /\ UNCHANGED <<call, ev, bt, dc, nd, tw, pd>>

\* a worker runs its task; workers interleave in any order
TaskStep ==
    /\ mt.pc = "forked"
    /\ \E t \in InFlight : Advance(t)
    /\ UNCHANGED <<call, ev, bt, dc, nd, tw, pd>>

\* the driver returns when every task has finished
Join ==
    /\ mt.pc = "forked"
    /\ \A t \in DOMAIN mt.task : mt.task[t].pc = "done"
    /\ mt' = [mt EXCEPT !.pc = "joined"]
    /\ UNCHANGED <<call, ev, bt, dc, nd, tw, pd>>

NextTrees ==
    \/ Submit
    \/ TaskStart
    \/ TaskStep
    \/ Join

SpecTrees == InitTrees /\ [][NextTrees]_vars

\* ---- Node::Node, Node::IsLeaf, Node::IsCommutative, node.hpp:97
\* NodeTypes::Count
Count == 31

\* the enumerators of NodeType in declaration order: the k-th is 1u << (k-1)
Kinds ==
    << "Add", "Mul", "Sub", "Div", "Aq", "Fmax", "Fmin", "Pow",
       "Abs", "Acos", "Asin", "Atan", "Cbrt", "Ceil", "Cos", "Cosh", "Exp", "Floor",
       "Log", "Logabs", "Log1p", "Sin", "Sinh", "Sqrt", "Sqrtabs", "Tan", "Tanh",
       "Square", "Dynamic", "Constant", "Variable" >>

RECURSIVE Pow2(_)
Pow2(k) == IF k = 0 THEN 1 ELSE 2 * Pow2(k - 1)

KindIndex(type) == CHOOSE k \in 1..Count : Kinds[k] = type

\* static_cast<utype>(type)
NodeType(type) == Pow2(KindIndex(type) - 1)

\* Node(NodeType type, Operon::Hash hashValue), lines 101-119
NodeNew(type, hashValue) ==
    LET arity == IF NodeType(type) < NodeType("Abs") THEN 2
                 ELSE IF NodeType(type) < NodeType("Constant") THEN 1
                 ELSE 0
    IN  [HashValue |-> hashValue, CalculatedHashValue |-> hashValue, Type |-> type,
         Arity |-> arity, Length |-> arity, IsEnabled |-> TRUE, Value |-> Q(1)]

\* line 155
IsLeaf(n) == n.Arity = 0

\* line 156
IsCommutative(n) == NodeType(n.Type) < NodeType("Sub")

\* the hash values handed to the two-argument constructor
Hashes == {7, 9}

Answer(b) == IF b THEN "yes" ELSE "no"

InitNode ==
    /\ call = [mode |-> "node"]
    /\ ev = Idle /\ bt = Idle /\ dc = Idle
    /\ nd = Idle
    /\ tw = Idle /\ mt = Idle /\ pd = Idle

\* Node(type), lines 97-100: the hash value is the type's own value
Construct ==
    /\ nd.pc = "idle"
    /\ \E k \in 1..Count :
          nd' = [pc |-> "built", node |-> NodeNew(Kinds[k], NodeType(Kinds[k])),
                 leaf |-> "unasked", commutative |-> "unasked"]
    /\ UNCHANGED <<call, ev, bt, dc, tw, mt, pd>>

\* Node(type, hashValue), lines 101-119
ConstructWithHash ==
    /\ nd.pc = "idle"
    /\ \E k \in 1..Count, h \in Hashes :
          nd' = [pc |-> "built", node |-> NodeNew(Kinds[k], h),
                 leaf |-> "unasked", commutative |-> "unasked"]
    /\ UNCHANGED <<call, ev, bt, dc, tw, mt, pd>>

AskIsLeaf ==
    /\ nd.pc = "built" /\ nd.leaf = "unasked"
    /\ nd' = [nd EXCEPT !.leaf = Answer(IsLeaf(nd.node))]
    /\ UNCHANGED <<call, ev, bt, dc, tw, mt, pd>>

AskIsCommutative ==
    /\ nd.pc = "built" /\ nd.commutative = "unasked"
    /\ nd' = [nd EXCEPT !.commutative = Answer(IsCommutative(nd.node))]
    /\ UNCHANGED <<call, ev, bt, dc, tw, mt, pd>>

NextNode ==
    \/ Construct
    \/ ConstructWithHash
    \/ AskIsLeaf
    \/ AskIsCommutative

SpecNode == InitNode /\ [][NextNode]_vars

\* ---- PopulationDiversityAnalyzer::Prepare(pop), diversity.hpp:71
\* Intersect2, lines 168-192: the count of equal entries of two sorted vectors
RECURSIVE Intersect2Loop(_, _, _, _, _)
Intersect2Loop(lhs, rhs, i, j, count) ==
    IF i = Size(lhs) \/ j = Size(rhs) THEN count
    ELSE LET a == lhs[i]
             b == rhs[j]
             lm == lhs[Size(lhs) - 1]
             rm == rhs[Size(rhs) - 1]
             count1 == IF a = b THEN count + 1 ELSE count
             i1 == IF a <= b THEN i + 1 ELSE i
             j1 == IF a >= b THEN j + 1 ELSE j
         IN  IF a > rm \/ b > lm THEN count1
             ELSE Intersect2Loop(lhs, rhs, i1, j1, count1)

Intersect2(lhs, rhs) == Intersect2Loop(lhs, rhs, 0, 0, 0)

\* lines 91-95: calculateDistance(i, j)
calculateDistance(hashes, i, j) ==
    LET h == Intersect2(hashes[i], hashes[j])
        s == Size(hashes[i]) + Size(hashes[j])
    IN  RDiv(Q(s - h), Q(s))

RECURSIVE SumOf(_)
SumOf(ds) == IF ds = << >> THEN Q(0) ELSE RAdd(ds[1], SumOf(Tail(ds)))

\* MeanVarianceCalculator: the mean of the values added so far
Mean(ds) == RDiv(SumOf(ds), Q(Len(ds)))

\* the sorted hash vectors HashTree yields for the individuals
HashVectors == {Seq0(<<1>>), Seq0(<<1, 2>>), Seq0(<<2, 3, 5>>)}

Populations == UNION {[0..(N - 1) -> HashVectors] : N \in 2..MaxPop}

InitDiversity ==
    /\ call \in [mode : {"diversity"}, hashes : Populations]
    /\ ev = Idle /\ bt = Idle /\ dc = Idle
    /\ pd = [pc |-> "entry"]
    /\ nd = Idle /\ tw = Idle /\ mt = Idle

\* lines 75-104: the hashes, the pairs and distances buffers, k, c and n
PrepareEnter ==
    /\ pd.pc = "entry"
    /\ LET N == Size(call.hashes)
       IN  pd' = [pc |-> "loop",
                  hashes |-> call.hashes,
                  pairs |-> [x \in 0..(N - 1) |-> <<0, 0>>],
                  distances |-> [x \in 0..(N - 1) |-> Q(0)],
                  k |-> 0, c |-> 0, n |-> ((N - 1) * N) \div 2,
                  i |-> 0, j |-> 1,
                  added |-> << >>, contributed |-> << >>, flushes |-> 0]
    /\ UNCHANGED <<call, ev, bt, dc, nd, tw, mt>>

\* lines 107-120: the body of the inner loop for the pair (i, j), then the
\* loop headers advance to the next pair
PairStep ==
    /\ pd.pc = "loop" /\ pd.i < Size(pd.hashes) - 1
    /\ LET N == Size(pd.hashes)
           pairs1 == [pd.pairs EXCEPT ![pd.k] = <<pd.i, pd.j>>]
           c1 == pd.c + 1
           k1 == IF pd.k + 1 = N THEN 0 ELSE pd.k + 1
           flush == k1 = N \/ c1 = pd.n
           distances1 == [idx \in 0..(N - 1) |->
                             calculateDistance(pd.hashes, pairs1[idx][1], pairs1[idx][2])]
           last == pd.j + 1 = N
       IN  pd' = [pd EXCEPT
                     !.pairs = pairs1,
                     !.c = c1,
                     !.k = IF flush THEN 0 ELSE k1,
                     !.distances = IF flush THEN distances1 ELSE pd.distances,
                     !.added = IF flush
                               THEN pd.added \o [x \in 1..N |-> distances1[x - 1]]
                               ELSE pd.added,
                     !.contributed = IF flush
                                     THEN pd.contributed \o [x \in 1..N |-> pairs1[x - 1]]
                                     ELSE pd.contributed,
                     !.flushes = IF flush THEN pd.flushes + 1 ELSE pd.flushes,
                     !.i = IF last THEN pd.i + 1 ELSE pd.i,
                     !.j = IF last THEN pd.i + 2 ELSE pd.j + 1]
    /\ UNCHANGED <<call, ev, bt, dc, nd, tw, mt>>

\* line 122: diversity = calc.Mean()
PrepareReturn ==
    /\ pd.pc = "loop" /\ ~(pd.i < Size(pd.hashes) - 1)
    /\ pd' = [pd EXCEPT !.pc = "done"]
    /\ UNCHANGED <<call, ev, bt, dc, nd, tw, mt>>

\* the value stored in diversity when Prepare has returned
Diversity == Mean(pd.added)

NextDiversity ==
    \/ PrepareEnter
    \/ PairStep
    \/ PrepareReturn

SpecDiversity == InitDiversity /\ [][NextDiversity]_vars

\* ================================================================== claims
\* the output span of a call
Output(e) == Subspan(e.buf, e.span.off, e.span.size)

\* one call of the span overload on a fresh buffer of range.Size() cells
EvaluateOn(nodes, range, parameters, junk) ==
    Output(RunF(Call(nodes, range, [k \in 0..(RangeSize(range) - 1) |-> junk],
                     [off |-> 0, size |-> RangeSize(range)], parameters, 0, junk)))

Concat0(f, g) ==
    [k \in 0..(Size(f) + Size(g) - 1) |-> IF k < Size(f) THEN f[k] ELSE g[k - Size(f)]]

\* C1: block independence. When a call of Evaluate over [a, b) has returned,
\* its output is the output over [a, mid) followed by the output over
\* [mid, b), for every split point a <= mid <= b.
C1_BlockIndependence ==
    ev.pc = "done" =>
        \A mid \in ev.range.Start..ev.range.End :
            Output(ev) =
                Concat0(EvaluateOn(ev.nodes, [Start |-> ev.range.Start, End |-> mid],
                                   ev.parameters, ev.junk),
                        EvaluateOn(ev.nodes, [Start |-> mid, End |-> ev.range.End],
                                   ev.parameters, ev.junk))

\* a returned call over more than one block of a tree that reads the dataset,
\* so that a split inside a block and a split with an empty part both occur
C1_Witness ==
    /\ ev.pc = "done"
    /\ call.mode = "span"
    /\ RangeSize(ev.range) > S
    /\ RangeSize(ev.range) % S # 0
    /\ \E k \in DOMAIN ev.nodes : IsVariable(ev.nodes[k])

\* the optimize-marked leaves of a tree, and the rank of one among them
OptimizeLeaves(nodes) == {k \in DOMAIN nodes : nodes[k].Optimize /\ nodes[k].Arity = 0}
LeafRank(nodes, k) == Cardinality({j \in OptimizeLeaves(nodes) : j < k})

\* the tree in which the k-th optimize-marked leaf carries parameters[k] as value
SubstituteLeaves(nodes, parameters) ==
    [k \in DOMAIN nodes |->
        IF k \in OptimizeLeaves(nodes)
        THEN [nodes[k] EXCEPT !.Value = parameters.at[LeafRank(nodes, k)].a]
        ELSE nodes[k]]

OnlyLeavesMarked(nodes) == OptimizeMarked(nodes) = OptimizeLeaves(nodes)

InSpan(e, k) == e.span.off <= k /\ k < e.span.off + e.numRows

\* C3: output coverage of the row-block loop. Blocks start at multiples of S
\* and are min(S, n - row) wide; the block just copied holds the root column;
\* on return every cell of the span was stored exactly once and no cell of
\* the caller's buffer outside the span was stored.
C3_OutputCoverage ==
    /\ ev.pc = "nodes" =>
          /\ ev.row % S = 0
          /\ ev.remainingRows = Min(S, ev.numRows - ev.row)
          /\ ev.remainingRows >= 1
    /\ (ev.pc = "rows" /\ ev.row >= S) =>
          \A k \in 0..(ev.remainingRows - 1) :
              ev.buf[ev.span.off + (ev.row - S) + k] = ev.m[Size(ev.nodes) - 1][k]
    /\ ev.pc = "done" =>
          \A k \in DOMAIN ev.buf : ev.writes[k] = IF InSpan(ev, k) THEN 1 ELSE 0

\* a returned tile call of the batch overload whose last block is partial and
\* whose span is a proper part of the caller's buffer
C3_Witness ==
    /\ ev.pc = "done"
    /\ call.mode = "batch"
    /\ ev.numRows > S
    /\ ev.numRows % S # 0
    /\ Size(ev.buf) > ev.numRows

Ceil(a, b) == (a + b - 1) \div b

\* C4: the batchSize overload. Tile k covers [start + k*batchSize,
\* min(start + (k+1)*batchSize, end)) and the result cells from k*batchSize,
\* every tile gets the caller's parameter vector, there are
\* ceil(size/batchSize) tiles, and the returned vector is the output of one
\* call of the span overload over the whole range.
C4_BatchTiling ==
    (bt.pc = "done" /\ Size(call.tree) > 0) =>
        LET a == call.range.Start
            b == call.range.End
            bs == call.batchSize
        IN  /\ Len(bt.tiles) = Ceil(b - a, bs)
            /\ \A k \in 1..Len(bt.tiles) :
                  /\ bt.tiles[k].range = [Start |-> a + (k - 1) * bs,
                                          End |-> Min(a + k * bs, b)]
                  /\ bt.tiles[k].span = [off |-> (k - 1) * bs,
                                         size |-> RangeSize(bt.tiles[k].range)]
                  /\ bt.tiles[k].span.size >= 1
                  /\ bt.tiles[k].parameters = call.parameters
            /\ Len(bt.tiles) > 0 => bt.tiles[Len(bt.tiles)].range.End = b
            /\ bt.result = EvaluateOn(call.tree, call.range, call.parameters, call.junk)

\* a returned batch call with parameters whose range does not start at row 0
\* and whose last tile is shorter than batchSize
C4_Witness ==
    /\ bt.pc = "done"
    /\ call.parameters.present
    /\ Cardinality(OptimizeMarked(call.tree)) >= 1
    /\ call.range.Start > 0
    /\ Len(bt.tiles) >= 2
    /\ RangeSize(call.range) % call.batchSize # 0

\* the children of the node at p by the sibling-stride recurrence:
\* c0 = p - 1, c(k+1) = nextSibling(ck)
RECURSIVE SiblingChain(_, _, _)
SiblingChain(nodes, c, k) ==
    IF k = 0 THEN << >>
    ELSE <<c>> \o SiblingChain(nodes, nextSibling(nodes, c), k - 1)

Children(nodes, p) == SiblingChain(nodes, p - 1, nodes[p].Arity)

\* the columns of the children of p, c0 first
ChildColumns(e, p) ==
    LET c == Children(e.nodes, p) IN [k \in 1..Len(c) |-> e.m[c[k]]]

Reverse(sq) == [k \in 1..Len(sq) |-> sq[Len(sq) + 1 - k]]

\* the inner nodes of kind N whose kernel has run in the current block
Evaluated(e, kinds) ==
    IF e.pc = "nodes"
    THEN {p \in DOMAIN e.nodes :
             p < e.i /\ e.nodes[p].Type \in kinds /\ e.nodes[p].Arity >= 2}
    ELSE {}

\* C5: the variadic fold in chunks of five. After the kernel of an Add, Mul,
\* Sub or Div node of arity k >= 2 has run, the parent column is the fold of
\* all k children c0 = p-1, c1, ..., c(k-1): c0 + c1 + ..., c0 * c1 * ...,
\* c0 - (c1 + ...), c0 / (c1 * ...).
C5_FoldOverAllChildren ==
    \A p \in Evaluated(ev, {"Add", "Mul", "Sub", "Div"}) :
        LET cols == ChildColumns(ev, p)
        IN  ev.m[p] = ColNary(ev.nodes[p].Type, Head(cols), Tail(cols))

SetupReached(e) == e.pc \in {"setup", "rows", "nodes", "done"}

\* C10 as claimed: the parameter index advances only at optimize-marked
\* leaves, so the k-th parameter goes to the k-th optimize-marked leaf.
C10_ConsumedOnlyAtLeaves ==
    SetupReached(ev) =>
        /\ \A k \in 1..Len(ev.consumed) : ev.nodes[ev.consumed[k]].Arity = 0
        /\ \A k \in 1..Len(ev.consumed) :
              LeafRank(ev.nodes, ev.consumed[k]) = k - 1

\* the nodes below index i in array order that satisfy the test of line 78
RECURSIVE MarkedBelow(_, _)
MarkedBelow(nodes, i) ==
    IF i = 0 THEN << >>
    ELSE IF nodes[i - 1].Optimize
         THEN Append(MarkedBelow(nodes, i - 1), i - 1)
         ELSE MarkedBelow(nodes, i - 1)

SetupIndex(e) == IF e.pc = "setup" THEN e.i ELSE Size(e.nodes)

\* C10 as amended: with a parameter vector supplied the parameter index
\* advances at every optimize-marked node, leaf or inner, and only there, so
\* the k-th parameter goes to the k-th optimize-marked node in array order;
\* without a vector no parameter is taken.
C10_ConsumedAtMarkedNodes ==
    SetupReached(ev) =>
        /\ ev.idx = Len(ev.consumed)
        /\ ev.consumed = IF ev.parameters.present
                         THEN MarkedBelow(ev.nodes, SetupIndex(ev))
                         ELSE << >>
        /\ \A k \in 1..Len(ev.consumed) :
              ev.meta[ev.consumed[k]].param = ParamAt(ev.parameters, k - 1, ev.junk)

\* the setup has taken a parameter at an inner node and then one at a leaf
C10_Witness ==
    /\ SetupReached(ev)
    /\ \E j, k \in 1..Len(ev.consumed) :
          /\ j < k
          /\ ev.nodes[ev.consumed[j]].Arity > 0
          /\ ev.nodes[ev.consumed[k]].Arity = 0

\* C7: the seeding invariant of the forward-mode sweep. At every invocation
\* of the interpreter for the chunk [s, r), input i of the chunk has lane
\* i - s equal to 1 and its other lanes 0, and every input outside the chunk
\* has all lanes 0, in the second and later chunks too.
C7_SeedingInvariant ==
    dc.pc = "interp" =>
        \A i \in DOMAIN dc.inputs :
            \A l \in 0..(DIMENSION - 1) :
                Lane(dc.inputs[i], l) =
                    IF dc.s <= i /\ i < dc.r /\ l = i - dc.s THEN Q(1) ELSE Q(0)

\* the value of the subtree at p on a dataset row, and its partial derivative
\* with respect to coeff[i], by the sum and product rules
ParamRank(nodes, p) == Cardinality({j \in OptimizeMarked(nodes) : j < p})

LeafScalar(nodes, p, coeff) ==
    IF nodes[p].Optimize THEN coeff[ParamRank(nodes, p)] ELSE nodes[p].Value

LeafSeed(nodes, p, i) ==
    IF nodes[p].Optimize /\ ParamRank(nodes, p) = i THEN Q(1) ELSE Q(0)

RECURSIVE Val(_, _, _, _), SumVal(_, _, _, _), ProdVal(_, _, _, _)
Val(nodes, p, row, coeff) ==
    CASE IsConstant(nodes[p]) -> LeafScalar(nodes, p, coeff)
      [] IsVariable(nodes[p]) ->
            RMul(LeafScalar(nodes, p, coeff), GetValues(nodes[p].HashValue)[row])
      [] nodes[p].Type = "Add" -> SumVal(nodes, Children(nodes, p), row, coeff)
      [] nodes[p].Type = "Mul" -> ProdVal(nodes, Children(nodes, p), row, coeff)
SumVal(nodes, cs, row, coeff) ==
    IF cs = << >> THEN Q(0)
    ELSE RAdd(Val(nodes, Head(cs), row, coeff), SumVal(nodes, Tail(cs), row, coeff))
ProdVal(nodes, cs, row, coeff) ==
    IF cs = << >> THEN Q(1)
    ELSE RMul(Val(nodes, Head(cs), row, coeff), ProdVal(nodes, Tail(cs), row, coeff))

RECURSIVE Der(_, _, _, _, _), SumDer(_, _, _, _, _), ProdDer(_, _, _, _, _)
Der(nodes, p, row, coeff, i) ==
    CASE IsConstant(nodes[p]) -> LeafSeed(nodes, p, i)
      [] IsVariable(nodes[p]) ->
            RMul(LeafSeed(nodes, p, i), GetValues(nodes[p].HashValue)[row])
      [] nodes[p].Type = "Add" -> SumDer(nodes, Children(nodes, p), row, coeff, i)
      [] nodes[p].Type = "Mul" -> ProdDer(nodes, Children(nodes, p), row, coeff, i)
SumDer(nodes, cs, row, coeff, i) ==
    IF cs = << >> THEN Q(0)
    ELSE RAdd(Der(nodes, Head(cs), row, coeff, i), SumDer(nodes, Tail(cs), row, coeff, i))
ProdDer(nodes, cs, row, coeff, i) ==
    IF cs = << >> THEN Q(0)
    ELSE RAdd(RMul(Der(nodes, Head(cs), row, coeff, i), ProdVal(nodes, Tail(cs), row, coeff)),
              RMul(Val(nodes, Head(cs), row, coeff), ProdDer(nodes, Tail(cs), row, coeff, i)))

\* C8: Jacobian correctness over all parameter counts. On return,
\* jacobian[r, i] is the partial derivative of output row r with respect to
\* coeff[i], for every row r and every i < P, for P <= D and for P > D.
C8_JacobianIsExact ==
    dc.pc = "done" =>
        \A r \in 0..(RangeSize(dc.range) - 1) :
            \A i \in DOMAIN dc.coeff :
                JacAt(dc, r, i) =
                    Der(dc.nodes, Size(dc.nodes) - 1, dc.range.Start + r, dc.coeff, i)

OtherOrder(order) == IF order = "ColMajor" THEN "RowMajor" ELSE "ColMajor"

\* C9: storage-order equivalence. On return, every logical entry (r, i)
\* holds the value the call with the other storage order leaves in it, was
\* stored exactly once, by the sweep whose chunk contains i, and no store
\* fell outside the buffer.
C9_StorageOrderEquivalence ==
    dc.pc = "done" =>
        LET other == JacRunF(JacCall(dc.nodes, dc.coeff, dc.range,
                                     OtherOrder(dc.order), dc.junk))
            rows == RangeSize(dc.range)
            cols == Size(dc.coeff)
        IN  /\ ~dc.oob
            /\ \A r \in 0..(rows - 1) :
                  \A i \in 0..(cols - 1) :
                      /\ JacAt(dc, r, i) = JacAt(other, r, i)
                      /\ dc.sweeps[MapIndex(dc.order, rows, cols, r, i)] =
                             <<DIMENSION * (i \div DIMENSION)>>

\* a returned row-major call over several rows whose last chunk is partial
C9_Witness ==
    /\ dc.pc = "done"
    /\ dc.order = "RowMajor"
    /\ Size(dc.coeff) > DIMENSION
    /\ Size(dc.coeff) % DIMENSION # 0
    /\ RangeSize(dc.range) >= 2

\* the three groups of kinds of the data model
BinaryKinds == {"Add", "Mul", "Sub", "Div", "Aq", "Fmax", "Fmin", "Pow"}
LeafKinds == {"Constant", "Variable", "Dynamic"}
UnaryKinds == {Kinds[k] : k \in 1..Count} \ (BinaryKinds \cup LeafKinds)

\* C11: arity by kind group. The node built for a kind has arity 2 in the
\* binary/variadic group, 1 in the unary group (Abs ... Square) and 0 for the
\* leaf kinds Constant, Variable and Dynamic; its length is its arity, and
\* IsLeaf() is true exactly for the three leaf kinds.
C11_ArityByKindGroup ==
    nd.pc = "built" =>
        /\ nd.node.Arity = IF nd.node.Type \in BinaryKinds THEN 2
                           ELSE IF nd.node.Type \in UnaryKinds THEN 1 ELSE 0
        /\ nd.node.Length = nd.node.Arity
        /\ nd.leaf # "unasked" => nd.leaf = Answer(nd.node.Type \in LeafKinds)

\* C12: commutativity classification. IsCommutative() is true exactly for
\* Add, Mul, Fmax and Fmin.
C12_CommutativeKinds ==
    (nd.pc = "built" /\ nd.commutative # "unasked") =>
        nd.commutative = Answer(nd.node.Type \in {"Add", "Mul", "Fmax", "Fmin"})

\* the preconditions of Evaluate that the call of e breaks
EmptyTree(e) == Size(e.nodes) = 0
MisSized(e) == e.span.size # RangeSize(e.range)
MissingKernel(e) ==
    \E k \in DOMAIN e.nodes :
        /\ e.nodes[k].Arity >= 1
        /\ ~IsConstant(e.nodes[k]) /\ ~IsVariable(e.nodes[k])
        /\ TryGet(e.nodes[k].HashValue) = "none"

NothingWritten(e) == \A k \in DOMAIN e.writes : e.writes[k] = 0

\* C13: precondition violations are fatal before any output. A call with an
\* empty tree, or with a result span whose size differs from the range's,
\* never returns normally and never stores into the caller's buffer, inside
\* the span or past its end.
C13_PreconditionsFatal ==
    (ev.pc # "idle" /\ (EmptyTree(ev) \/ MisSized(ev))) =>
        /\ ev.pc # "done"
        /\ NothingWritten(ev)

\* C14: a missing kernel is fatal. A call (otherwise within its contract) on a
\* tree with an inner node whose dispatch-table lookup is empty never returns
\* normally and stores nothing: it never skips the node and copies out a root
\* column no kernel has written.
C14_MissingKernelFatal ==
    (ev.pc # "idle" /\ ~EmptyTree(ev) /\ ~MisSized(ev) /\ MissingKernel(ev)) =>
        /\ ev.pc # "done"
        /\ NothingWritten(ev)

\* the nodes of the subtree of p, gathered along the sibling recurrence
RECURSIVE SubtreeOf(_, _)
SubtreeOf(nodes, p) ==
    LET ch == Children(nodes, p)
    IN  {p} \cup UNION {SubtreeOf(nodes, ch[k]) : k \in 1..Len(ch)}

\* C15: the sibling recurrence. In a tree with consistent length and arity
\* fields, the indices c0 = p - 1, c(k+1) = ck - length[ck] - 1 of an inner node
\* p all lie in [p - length[p], p - 1], are pairwise distinct and are exactly
\* the roots of p's child subtrees; the subtree of p occupies exactly
\* [p - length[p], p]; and the columns a kernel visits through nextSibling are
\* these children, in this order, so it never leaves the interval.
C15_SiblingRecurrence ==
    tw.pc # "idle" =>
        LET nodes == tw.nodes
            p == tw.parentIndex
            lo == p - nodes[p].Length
            ch == Children(nodes, p)
        IN  /\ \A k \in 1..Len(ch) : ch[k] >= lo /\ ch[k] <= p - 1
            /\ \A j, k \in 1..Len(ch) : j # k => ch[j] # ch[k]
            /\ {ch[k] : k \in 1..Len(ch)} = ChildRoots(nodes, p)
            /\ SubtreeOf(nodes, p) = lo..p
            /\ Len(tw.visits) <= Len(ch)
            /\ \A k \in 1..Len(tw.visits) : tw.visits[k] = ch[k]
            /\ tw.pc = "return" => Len(tw.visits) = nodes[p].Arity

\* a kernel has walked over three or more children, one of them an inner node
C15_Witness ==
    /\ tw.pc = "return"
    /\ Len(tw.visits) >= 3
    /\ \E k \in 1..Len(tw.visits) : tw.nodes[tw.visits[k]].Length > 0

\* the cells of result task t has stored into
WrittenBy(t) == {k \in DOMAIN mt.result : mt.task[t].writes[k] > 0}

\* C16: multi-tree driver isolation. With one task per tree, in every
\* interleaving and for every thread count, task t stores only into the output
\* indices [t * range.size, (t + 1) * range.size), no two tasks store into the
\* same index, no task changes a tree, and the buffer the driver returns is
\* the one the trees evaluated one after another produce.
C16_TaskIsolation ==
    mt.pc \in {"forked", "joined"} =>
        LET n == RangeSize(call.range) IN
        /\ \A t \in DOMAIN mt.task :
              WrittenBy(t) \subseteq (t * n)..((t + 1) * n - 1)
        /\ \A t, u \in DOMAIN mt.task : t # u => WrittenBy(t) \cap WrittenBy(u) = {}
        /\ mt.trees = call.trees
        /\ \A t \in DOMAIN mt.task : mt.task[t].nodes = call.trees[t + 1]
        /\ mt.pc = "joined" =>
              \A t \in DOMAIN mt.task :
                  Subspan(mt.result, t * n, n) =
                      EvaluateOn(call.trees[t + 1], call.range, NoParameters, call.junk)

\* two tasks are both under way and each has already stored a block
C16_Witness ==
    /\ mt.pc = "forked"
    /\ \E t, u \in DOMAIN mt.task :
          /\ t # u
          /\ Running(mt.task[t]) /\ Running(mt.task[u])
          /\ WrittenBy(t) # {} /\ WrittenBy(u) # {}

\* the value of node j for the block of e: a leaf's from its parameter and
\* the dataset rows of the block, an inner node's from its kernel applied to
\* the values of its subtree
RECURSIVE BlockValue(_, _)
BlockValue(e, j) ==
    LET n == e.nodes[j]
        below == [c \in DOMAIN e.m |->
                     IF c >= j - n.Length /\ c < j THEN BlockValue(e, c) ELSE e.m[c]]
    IN  IF IsVariable(n)
        THEN [k \in 0..(S - 1) |->
                 IF k < e.remainingRows
                 THEN TMul(e.meta[j].param,
                           Cast(GetValues(n.HashValue)[e.range.Start + e.row + k], e.lanes))
                 ELSE e.m[j][k]]
        ELSE IF IsConstant(n) THEN [k \in 0..(S - 1) |-> e.meta[j].param]
        ELSE IF e.meta[j].func = "none" THEN e.m[j]
        ELSE dispatch_op(e.meta[j].func, below, e.nodes, j)[j]

\* the kernel of inner node i of the current block is about to be invoked
KernelDue(e) ==
    /\ e.pc = "nodes" /\ e.i < Size(e.nodes)
    /\ ~IsVariable(e.nodes[e.i])
    /\ e.nodes[e.i].Arity >= 1
    /\ e.meta[e.i].func # "none"

\* whenever a kernel is due, the columns of its subtree hold this block's values
ColumnsReady ==
    KernelDue(ev) =>
        \A j \in (ev.i - ev.nodes[ev.i].Length)..(ev.i - 1) :
            \A k \in 0..(ev.remainingRows - 1) : ev.m[j][k] = BlockValue(ev, j)[k]

\* a step inside one call of Evaluate
WithinCall ==
    /\ ev.pc \in {"setup", "rows", "nodes"}
    /\ ev'.pc \in {"rows", "nodes", "done", "abort"}

\* blocks start at strictly increasing rows, the nodes of a block are taken at
\* indices 0, 1, 2, ..., and result is stored into only after the last node
OrderStep ==
    WithinCall =>
        /\ (ev.pc = "rows" /\ ev'.pc = "nodes") => ev'.i = 0 /\ ev'.row = ev.row
        /\ (ev.pc = "nodes" /\ ev'.pc = "nodes") => ev'.i = ev.i + 1 /\ ev'.row = ev.row
        /\ (ev.pc = "nodes" /\ ev'.pc = "rows") =>
              ev.i = Size(ev.nodes) /\ ev'.row > ev.row
        /\ ev'.writes # ev.writes =>
              ev.pc = "nodes" /\ ev.i = Size(ev.nodes) /\ ev'.pc = "rows"

\* C17: evaluation order inside Evaluate. Row blocks are processed in strictly
\* increasing row order; within a block the nodes are visited in strictly
\* increasing index order; when the kernel of inner node i is invoked, every
\* working column in [i - length[i], i - 1] already holds the value of its node
\* for that same block; and the root column is copied into result only after
\* the last node of the block has been processed.
C17_EvaluationOrder == [](ColumnsReady) /\ [][OrderStep]_vars

\* in a later block, the kernel of a node with an inner child and a variable
\* in its subtree is due
C17_Witness ==
    /\ KernelDue(ev)
    /\ ev.row > 0
    /\ ev.nodes[ev.i].Length > ev.nodes[ev.i].Arity
    /\ \E j \in (ev.i - ev.nodes[ev.i].Length)..(ev.i - 1) : IsVariable(ev.nodes[j])

\* the unordered pairs of a population of N individuals, as (i, j) with i < j
AllPairs(N) == {<<i, j>> : i \in 0..(N - 1), j \in 0..(N - 1)} \cap
               {pr \in (0..(N - 1)) \X (0..(N - 1)) : pr[1] < pr[2]}

Occurrences(seq, x) == Cardinality({k \in 1..Len(seq) : seq[k] = x})

RECURSIVE SumDistances(_, _)
SumDistances(hashes, prs) ==
    IF prs = {} THEN Q(0)
    ELSE LET pr == CHOOSE x \in prs : TRUE
         IN  RAdd(calculateDistance(hashes, pr[1], pr[2]),
                  SumDistances(hashes, prs \ {pr}))

\* C18: pair enumeration in the diversity analyzer. When Prepare has returned
\* over N >= 2 individuals, every unordered pair (i, j) with i < j has
\* contributed its distance exactly once, nothing else (a default (0,0) slot,
\* a pair left in the buffer) has contributed, the buffer was flushed each
\* time it became full and once for a final partial fill, and the diversity
\* is the mean of the distance over all N(N-1)/2 pairs.
C18_EveryPairOnce ==
    pd.pc = "done" =>
        LET N == Size(pd.hashes) IN
        /\ \A pr \in AllPairs(N) : Occurrences(pd.contributed, pr) = 1
        /\ \A k \in 1..Len(pd.contributed) : pd.contributed[k] \in AllPairs(N)
        /\ pd.flushes = Ceil(pd.n, N)
        /\ Diversity = RDiv(SumDistances(pd.hashes, AllPairs(N)), Q(pd.n))

====
